---- MODULE Spec2Model ----
(***************************************************************************)
(* Model of the employee-calendar backend (app/main.py, app/models.py,     *)
(* app/db.py).                                                             *)
(*                                                                         *)
(* main.py imports the session factory as SessionLocal; db.py defines it   *)
(* as AsyncSessionLocal.  The model takes the two to be the same factory.  *)
(*                                                                         *)
(* Text values (dates as received, time labels, holiday names, secrets,    *)
(* statuses) are sequences of one-character strings, so that str.strip(),  *)
(* DATE_RE and date.fromisoformat() are computed character by character.   *)
(* A stored date is the triple <<year, month, day>>.                       *)
(***************************************************************************)
EXTENDS Integers, Sequences, FiniteSets, TLC

VARIABLES
    store,        \* rows of table calendar_entries (a set of records, one per id)
    phase,        \* "startup" until on_startup has run, then "serving"
    inflight,     \* sessions that have run their SELECT and not yet committed
    last          \* the request completed last, with its response

vars == <<store, phase, inflight, last>>

-----------------------------------------------------------------------------
(* Bounds of the model *)

\* rows the table holds at once
MaxRows == 2
\* requests that may stand between their SELECT and their commit at once
MaxInflight == 1

-----------------------------------------------------------------------------
(* Text *)

\* Python's None, distinct from every text (texts hold one-character strings)
None == <<"None">>

Working == <<"W","o","r","k","i","n","g">>
Holiday == <<"H","o","l","i","d","a","y">>
Leave   == <<"L","e","a","v","e">>
RD      == <<"R","D">>
ZeroHours == <<"0"," ","h","o","u","r","s">>

Whitespace == {" ", "\n", "\t"}
Digits == {"0","1","2","3","4","5","6","7","8","9"}

DigitVal(c) ==
    CASE c = "0" -> 0 [] c = "1" -> 1 [] c = "2" -> 2 [] c = "3" -> 3
      [] c = "4" -> 4 [] c = "5" -> 5 [] c = "6" -> 6 [] c = "7" -> 7
      [] c = "8" -> 8 [] c = "9" -> 9

DigitChar(n) ==
    CASE n = 0 -> "0" [] n = 1 -> "1" [] n = 2 -> "2" [] n = 3 -> "3"
      [] n = 4 -> "4" [] n = 5 -> "5" [] n = 6 -> "6" [] n = 7 -> "7"
      [] n = 8 -> "8" [] n = 9 -> "9"

RECURSIVE LStrip(_)
LStrip(s) == IF s # <<>> /\ Head(s) \in Whitespace THEN LStrip(Tail(s)) ELSE s

RECURSIVE RStrip(_)
RStrip(s) ==
    IF s # <<>> /\ s[Len(s)] \in Whitespace
    THEN RStrip(SubSeq(s, 1, Len(s) - 1)) ELSE s

\* str.strip()
Strip(s) == RStrip(LStrip(s))

\* Python truthiness of an optional text: None and "" are falsy
Truthy(v) == v # None /\ v # <<>>

\* (v or "")
OrEmpty(v) == IF Truthy(v) THEN v ELSE <<>>

\* "".join(parts)
RECURSIVE Join(_)
Join(parts) == IF parts = <<>> THEN <<>> ELSE Head(parts) \o Join(Tail(parts))

\* needle in haystack (substring test of str.__contains__)
Contains(haystack, needle) ==
    \E i \in 1..(Len(haystack) - Len(needle) + 1) :
        SubSeq(haystack, i, i + Len(needle) - 1) = needle

-----------------------------------------------------------------------------
(* Dates *)

\* DATE_RE = ^\d{4}-\d{2}-\d{2}$ ; in Python "$" also matches before one
\* trailing newline
DATE_RE_match(s) ==
    LET core(t) == /\ Len(t) = 10
                   /\ \A i \in {1,2,3,4,6,7,9,10} : t[i] \in Digits
                   /\ t[5] = "-" /\ t[8] = "-"
    IN  \/ core(s)
        \/ Len(s) = 11 /\ s[11] = "\n" /\ core(SubSeq(s, 1, 10))

IsLeap(y) == (y % 4 = 0 /\ y % 100 # 0) \/ y % 400 = 0

DaysInMonth(y, m) ==
    IF m = 2 THEN (IF IsLeap(y) THEN 29 ELSE 28)
    ELSE IF m \in {4, 6, 9, 11} THEN 30 ELSE 31

\* datetime.date.fromisoformat on a text: the date triple, or ValueError
\* (the texts it is given here have the extended form or are rejected by
\* every Python version for their length)
fromisoformat(s) ==
    IF ~(/\ Len(s) = 10
         /\ \A i \in {1,2,3,4,6,7,9,10} : s[i] \in Digits
         /\ s[5] = "-" /\ s[8] = "-")
    THEN [exc |-> "ValueError", value |-> <<0, 0, 0>>]
    ELSE LET y == 1000 * DigitVal(s[1]) + 100 * DigitVal(s[2])
                  + 10 * DigitVal(s[3]) + DigitVal(s[4])
             m == 10 * DigitVal(s[6]) + DigitVal(s[7])
             d == 10 * DigitVal(s[9]) + DigitVal(s[10])
         IN  IF y >= 1 /\ m \in 1..12 /\ d >= 1 /\ d <= DaysInMonth(y, m)
             THEN [exc |-> "none", value |-> <<y, m, d>>]
             ELSE [exc |-> "ValueError", value |-> <<0, 0, 0>>]

\* datetime.date.isoformat
isoformat(dte) ==
    LET y == dte[1]  m == dte[2]  d == dte[3]
    IN  << DigitChar(y \div 1000), DigitChar((y \div 100) % 10),
           DigitChar((y \div 10) % 10), DigitChar(y % 10), "-",
           DigitChar(m \div 10), DigitChar(m % 10), "-",
           DigitChar(d \div 10), DigitChar(d % 10) >>

\* _date_or_400: what the call ends in.
\*   exc = "none"          : returns value
\*   exc = "HTTPException" : raised by the helper (status 400)
\*   exc = "TypeError"     : re.match on None
\*   exc = "ValueError"    : fromisoformat on a text the regex let through
date_or_400(value) ==
    IF value = None THEN [exc |-> "TypeError", value |-> <<0, 0, 0>>]
    ELSE IF ~DATE_RE_match(value)
         THEN [exc |-> "HTTPException", value |-> <<0, 0, 0>>]
    ELSE fromisoformat(value)

-----------------------------------------------------------------------------
(* The table and the ORM session *)

VALID_STATIONS == {"StationA", "StationB"}

normalize_station(station) ==
    IF station \in VALID_STATIONS THEN station ELSE "StationA"

\* a CalendarEntry object; id = 0 stands for "no object" (None), a negative id
\* for an object added to a session and not yet inserted
CalendarEntry(id, station, date, status, time_label, is_ph, holiday_name) ==
    [id |-> id, station |-> station, date |-> date, status |-> status,
     time_label |-> time_label, is_public_holiday |-> is_ph,
     holiday_name |-> holiday_name]

NoRow == CalendarEntry(0, "", <<0, 0, 0>>, None, None, FALSE, None)

Columns == {"station", "date", "status", "time_label",
            "is_public_holiday", "holiday_name"}

\* select(CalendarEntry).where(station == .., date == ..)
SelectExisting(rows, station, date_obj) ==
    {r \in rows : r.station = station /\ r.date = date_obj}

\* .scalars().first(): the query has no ORDER BY, so any matching row may come
\* first; None when there is none
FirstOf(rows) == IF rows = {} THEN {NoRow} ELSE rows

\* A session: the rows as they were loaded, and the objects as they stand now
\* (loaded ones by their id, added ones with ids -1, -2, ... in order of add).
RowById(rows, id) == CHOOSE r \in rows : r.id = id

\* objects whose attributes differ from what was loaded
Dirty(sess) ==
    {o \in sess.objects : o.id > 0 /\ o # RowById(sess.loaded, o.id)}

\* a flush UPDATEs a dirty object by primary key and finds no row
StaleData(rows, sess) ==
    \E o \in Dirty(sess) : ~\E r \in rows : r.id = o.id

\* UPDATE ... SET <the columns whose value changed> WHERE id = ..
UpdatedRow(cur, sess) ==
    IF \E o \in Dirty(sess) : o.id = cur.id
    THEN LET o  == RowById(Dirty(sess), cur.id)
             ld == RowById(sess.loaded, cur.id)
         IN  [f \in DOMAIN cur |->
                 IF f \in Columns /\ o[f] # ld[f] THEN o[f] ELSE cur[f]]
    ELSE cur

Pending(sess) == {o \in sess.objects : o.id < 0}

\* The autoincrement key gives every INSERT an id no row ever had.  Ids are
\* only compared for equality, so the model hands out the least ids that no
\* row and no open session holds.
RECURSIVE FreshIds(_, _, _)
FreshIds(used, n, from) ==
    IF n = 0 THEN <<>>
    ELSE IF from \in used THEN FreshIds(used, n, from + 1)
    ELSE <<from>> \o FreshIds(used, n - 1, from + 1)

HeldIds ==
    {r.id : r \in store}
        \cup UNION {{r.id : r \in inflight[i].loaded} :
                       i \in {j \in DOMAIN inflight : inflight[j].op # "idle"}}

\* session.commit(): the table after the flush; the k-th added object is
\* inserted with the k-th fresh id
Commit(rows, sess) ==
    LET ids == FreshIds(HeldIds, Cardinality(Pending(sess)), 1)
    IN  {UpdatedRow(cur, sess) : cur \in rows}
            \cup {[o EXCEPT !.id = ids[0 - o.id]] : o \in Pending(sess)}

\* room for n more rows within the model's bound
Room(n) == Cardinality(store) + n <= MaxRows

-----------------------------------------------------------------------------
(* JSON objects are sequences of <<key, value>> pairs with distinct keys *)

Keys(obj) == {obj[i][1] : i \in 1..Len(obj)}

\* obj.get(key), None when the key is absent
Get(obj, key) ==
    IF key \in Keys(obj)
    THEN (CHOOSE p \in {obj[i] : i \in 1..Len(obj)} : p[1] = key)[2]
    ELSE None

-----------------------------------------------------------------------------
(* Inputs *)

D1 == <<"2","0","2","5","-","0","1","-","0","1">>
BadMonth == <<"2","0","2","5","-","1","3","-","0","1">>
BadDay == <<"2","0","2","5","-","0","2","-","3","0">>
NoPad == <<"2","0","2","5","-","1","-","1">>
TrailingNewline == D1 \o <<"\n">>

StationInputs == {"StationA", "StationB", "Depot"}
ValidDates == {D1}
\* texts that are no calendar date, each rejected at a different place
BadDates == {NoPad, BadMonth, BadDay, TrailingNewline}
TimeInputs == {None, <<>>, <<" ">>, <<"9">>, <<" ", "9">>}
NameInputs == {<<"X">>, <<"X", " ">>}

\* POST /calendar: the query parameter and the JSON body
EntryRequest(station, date, status, time) ==
    [station |-> station, date |-> date, status |-> status, time |-> time]

EntryRequests ==
    {EntryRequest(st, d, status, t) :
        st \in StationInputs, d \in ValidDates, status \in {Working, Holiday},
        t \in TimeInputs}
    \cup {EntryRequest("StationA", d, status, None) :
        d \in ValidDates, status \in {Leave, None}}
    \cup {EntryRequest("StationA", d, Working, None) : d \in BadDates \cup {None}}

\* POST /calendar/public
HolidayRequest(station, date, name) ==
    [station |-> station, date |-> date, name |-> name]

HolidayRequests ==
    {HolidayRequest(st, d, n) :
        st \in StationInputs, d \in ValidDates, n \in NameInputs}
    \cup {HolidayRequest("StationA", d, <<"X">>) : d \in {None, NoPad, BadMonth}}
    \cup {HolidayRequest("StationA", d, n) : d \in ValidDates, n \in {None, <<" ">>}}

\* DELETE /calendar/{date}, DELETE /calendar/public/{date}
DeleteRequest(station, date) == [station |-> station, date |-> date]

DeleteRequests ==
    {DeleteRequest(st, d) : st \in StationInputs, d \in ValidDates}
    \cup {DeleteRequest("StationA", d) : d \in BadDates}

PublicDeleteRequests ==
    {DeleteRequest(st, d) : st \in StationInputs, d \in ValidDates}
    \cup {DeleteRequest("StationA", NoPad)}

\* POST /admin/reset, with the value of RENDER_RESET_SECRET it finds
ResetRequest(station, secret, expected) ==
    [station |-> station, secret |-> secret, expected |-> expected]

ResetRequests ==
    {ResetRequest(st, <<"s">>, <<"s">>) : st \in StationInputs}
    \cup {ResetRequest("StationA", sec, e) :
             sec \in {<<>>, <<"s">>}, e \in {None, <<>>}}
    \cup {ResetRequest("StationA", <<"x">>, <<"s">>)}

\* the legacy file calendar_data.json
Buckets(cal, times, ph) ==
    [calendar_data |-> cal, calendar_times |-> times, public_holidays |-> ph]

LegacyFile(stations, cal, times, ph) ==
    [exists |-> TRUE, stations |-> stations, calendar_data |-> cal,
     calendar_times |-> times, public_holidays |-> ph]

NoFile == [exists |-> FALSE, stations |-> <<>>, calendar_data |-> <<>>,
           calendar_times |-> <<>>, public_holidays |-> <<>>]

LegacyFiles ==
    { NoFile,
      \* flat shape, a public holiday
      LegacyFile(<<>>, << <<D1, Holiday>> >>, <<>>, << <<D1, <<"X">> >> >>),
      \* flat shape, a status outside the enumeration and an explicit label
      LegacyFile(<<>>, << <<D1, Leave>> >>, << <<D1, <<"9">> >> >>, <<>>),
      \* flat shape, a key that is no date at all
      LegacyFile(<<>>, << <<NoPad, Working>>, <<D1, Holiday>> >>, <<>>, <<>>),
      \* flat shape, a key of the right form that is no calendar date
      LegacyFile(<<>>, << <<D1, Working>>, <<BadMonth, Working>> >>, <<>>, <<>>),
      \* stations shape, two known stations
      LegacyFile(<< <<"StationA", Buckets(<< <<D1, Working>> >>, <<>>, <<>>)>>,
                    <<"StationB", Buckets(<< <<D1, Holiday>> >>, <<>>, <<>>)>> >>,
                 <<>>, <<>>, <<>>),
      \* stations shape, an unknown station name beside StationA
      LegacyFile(<< <<"StationA", Buckets(<< <<D1, Working>> >>, <<>>, <<>>)>>,
                    <<"Depot", Buckets(<< <<D1, Holiday>> >>, <<>>,
                                       << <<D1, <<"X">> >> >>)>> >>,
                 <<>>, <<>>, <<>>) }

\* the provider's answer: a list of {date, localName, counties}
Counties(null, list) == [null |-> null, list |-> list]
QLD == <<"Q","L","D">>
AU_QLD == <<"A","U","-","Q","L","D">>
AU_NSW == <<"A","U","-","N","S","W">>

Item(date, localName, counties) ==
    [date |-> date, localName |-> localName, counties |-> counties]

National == Item(D1, <<"X">>, Counties(TRUE, <<>>))
NoCounties == Item(D1, <<"X">>, Counties(FALSE, <<>>))
Queensland == Item(D1, <<"X">>, Counties(FALSE, <<AU_NSW, AU_QLD>>))
NewSouthWales == Item(D1, <<"X">>, Counties(FALSE, <<AU_NSW>>))
NotADate == Item(BadMonth, <<"X">>, Counties(TRUE, <<>>))

Response(error, items) == [error |-> error, items |-> items]

ProviderResponses ==
    { Response(TRUE, <<>>),
      Response(FALSE, <<>>),
      Response(FALSE, <<National>>),
      Response(FALSE, <<NoCounties>>),
      Response(FALSE, <<Queensland>>),
      Response(FALSE, <<NewSouthWales>>),
      Response(FALSE, <<NewSouthWales, National>>),
      Response(FALSE, <<National, Queensland>>),
      Response(FALSE, <<National, NotADate>>) }

-----------------------------------------------------------------------------------------------------------------------------------------------------
(* What the model remembers of the request completed last *)

\* result: "ok"        {"success": True, ...}
\*         "fail"      {"success": False, ...}
\*         "forbidden" HTTP 403
\*         "fault"     an exception no handler catches (HTTP 500)
\* matched: the rows the request's SELECT or DELETE matched
\* row_id : the row the request inserted or loaded
NoRequest ==
    [op |-> "none", station |-> "", date |-> None, date_obj |-> <<0, 0, 0>>,
     status |-> None, time |-> None, name |-> None, secret |-> None,
     expected |-> None, result |-> "none", message |-> "", row_id |-> 0,
     matched |-> 0, count |-> 0, passed |-> 0]

\* an open session of a request between its SELECT and its commit
Idle == [op |-> "idle"]

Session(op, req, loaded, objects) ==
    [op |-> op, req |-> req, loaded |-> loaded, objects |-> objects]

\* the id of the row a single-object session writes
WrittenId(sess) ==
    IF Pending(sess) # {} THEN FreshIds(HeldIds, 1, 1)[1]
    ELSE (CHOOSE o \in sess.objects : TRUE).id

\* await session.commit() and the return that follows it.  A flush whose
\* UPDATE finds no row raises StaleDataError: the import catches it (line 309),
\* the other handlers do not.
Finish(sess) ==
    IF StaleData(store, sess)
    THEN /\ store' = store
         /\ last' = [sess.req EXCEPT
                 !.result = IF sess.op = "import_public_holidays"
                            THEN "fail" ELSE "fault",
                 !.message = "StaleDataError", !.count = 0]
    ELSE /\ Room(Cardinality(Pending(sess)))
         /\ store' = Commit(store, sess)
         /\ last' = [sess.req EXCEPT !.result = "ok",
                 !.row_id = IF sess.op = "import_public_holidays" THEN 0
                            ELSE WrittenId(sess)]

-----------------------------------------------------------------------------
(* on_startup: the one-time import of the legacy file *)

stations_obj(data) ==
    IF Len(data.stations) = 0
    THEN << <<"StationA", Buckets(data.calendar_data, data.calendar_times,
                                  data.public_holidays)>> >>
    ELSE data.stations

\* the CalendarEntry built for one (d, status) of a bucket, with the exception
\* fromisoformat raises, if any
LegacyEntry(station, buckets, d, status) ==
    LET times == buckets.calendar_times
        ph    == buckets.public_holidays
        is_ph == d \in Keys(ph)
        label == IF Truthy(Get(times, d)) THEN Get(times, d)
                 ELSE IF status = Holiday THEN RD ELSE ZeroHours
    IN  [exc |-> fromisoformat(d).exc,
         row |-> CalendarEntry(0, normalize_station(station),
                               fromisoformat(d).value, status, label, is_ph,
                               IF is_ph THEN Get(ph, d) ELSE None)]

RECURSIVE BucketEntries(_, _, _)
BucketEntries(station, buckets, i) ==
    IF i > Len(buckets.calendar_data) THEN <<>>
    ELSE LET d      == buckets.calendar_data[i][1]
             status == buckets.calendar_data[i][2]
         IN  (IF ~DATE_RE_match(d) THEN <<>>
              ELSE <<LegacyEntry(station, buckets, d, status)>>)
                 \o BucketEntries(station, buckets, i + 1)

RECURSIVE StationEntries(_, _)
StationEntries(sts, i) ==
    IF i > Len(sts) THEN <<>>
    ELSE BucketEntries(sts[i][1], sts[i][2], 1) \o StationEntries(sts, i + 1)

LegacyEntries(data) == StationEntries(stations_obj(data), 1)

\* the session at the commit of the import: every entry added, in order
LegacySession(data) ==
    LET es == LegacyEntries(data)
    IN  Session("on_startup", NoRequest, {},
                {[es[i].row EXCEPT !.id = 0 - i] : i \in 1..Len(es)})

\* whether the import runs to its commit: the file exists, the table is empty
\* and no entry raises (the except clause swallows the exception and nothing
\* is committed)
LegacyImports(rows, data) ==
    /\ data.exists
    /\ rows = {}
    /\ \A i \in 1..Len(LegacyEntries(data)) : LegacyEntries(data)[i].exc = "none"

on_startup(data) ==
    /\ phase = "startup"
    /\ IF LegacyImports(store, data)
       THEN /\ Room(Len(LegacyEntries(data)))
            /\ store' = Commit(store, LegacySession(data))
       ELSE store' = store
    /\ phase' = "serving"
    /\ last' = [NoRequest EXCEPT !.op = "on_startup"]
    /\ UNCHANGED inflight

-----------------------------------------------------------------------------
(* GET /calendar *)

\* the orders in which a query without ORDER BY may return rows
Orders(rows) ==
    {f \in [1..Cardinality(rows) -> rows] :
        \A i, j \in 1..Cardinality(rows) : i # j => f[i] # f[j]}

\* the three dicts after the loop over rows[1..i]; a later row with the same
\* key replaces an earlier one
RECURSIVE CalendarDicts(_, _)
CalendarDicts(rows, i) ==
    IF i = 0
    THEN [calendar_data |-> <<>>, calendar_times |-> <<>>,
          public_holidays |-> <<>>]
    ELSE LET acc == CalendarDicts(rows, i - 1)
             r   == rows[i]
             key == isoformat(r.date)
         IN  [calendar_data |-> (key :> r.status) @@ acc.calendar_data,
              calendar_times |->
                  IF Truthy(r.time_label)
                  THEN (key :> r.time_label) @@ acc.calendar_times
                  ELSE acc.calendar_times,
              public_holidays |->
                  IF r.is_public_holiday /\ Truthy(r.holiday_name)
                  THEN (key :> r.holiday_name) @@ acc.public_holidays
                  ELSE acc.public_holidays]

\* every response get_calendar_data may give for the station
CalendarResponses(rows, station) ==
    LET mine == {r \in rows : r.station = normalize_station(station)}
    IN  {[station |-> normalize_station(station),
          calendar_data |-> CalendarDicts(o, Len(o)).calendar_data,
          calendar_times |-> CalendarDicts(o, Len(o)).calendar_times,
          public_holidays |-> CalendarDicts(o, Len(o)).public_holidays] :
            o \in Orders(mine)}

\* the handler reads and writes nothing
get_calendar_data(station) ==
    /\ phase = "serving"
    /\ CalendarResponses(store, station) # {}
    /\ UNCHANGED vars

-----------------------------------------------------------------------------
(* POST /admin/reset *)

\* the check without its "not expected" guard
reset_allowed_unguarded(expected, secret) == secret = OrEmpty(expected)

\* line 140, negated
reset_allowed(expected, secret) == ~(~Truthy(expected) \/ secret # expected)

reset_station(station, secret, expected) ==
    /\ phase = "serving"
    /\ LET st   == normalize_station(station)
           mine == {r \in store : r.station = st}
           req  == [NoRequest EXCEPT !.op = "reset_station", !.station = st,
                       !.secret = secret, !.expected = expected,
                       !.matched = Cardinality(mine)]
       IN  IF ~reset_allowed(expected, secret)
           THEN /\ last' = [req EXCEPT !.result = "forbidden",
                               !.message = "Forbidden"]
                /\ store' = store
           ELSE /\ store' = store \ mine
                /\ last' = [req EXCEPT !.result = "ok",
                               !.message = "wiped successfully"]
    /\ UNCHANGED <<phase, inflight>>

-----------------------------------------------------------------------------
(* POST /calendar *)

\* the assignments with the holiday metadata cleared as well
EntryAssign_clearing(obj, status, time) ==
    [obj EXCEPT !.status = status,
                !.time_label = IF time # <<>> THEN time
                               ELSE IF status = Holiday THEN RD ELSE ZeroHours,
                !.is_public_holiday = FALSE,
                !.holiday_name = None]

\* the assignments with a Holiday always labelled "RD"
EntryAssign_holiday_rd(obj, status, time) ==
    [obj EXCEPT !.status = status,
                !.time_label = IF status = Holiday THEN RD
                               ELSE IF time # <<>> THEN time ELSE ZeroHours]

\* lines 188-192: the assignments made to the object, new or loaded
EntryAssign(obj, status, time) ==
    [obj EXCEPT !.status = status,
                !.time_label = IF time # <<>> THEN time
                               ELSE IF status = Holiday THEN RD ELSE ZeroHours]

\* lines 177-186: the object the handler goes on with
EntryObject(existing, station, date_obj, status) ==
    IF existing = NoRow
    THEN CalendarEntry(-1, station, date_obj, status, None, FALSE, None)
    ELSE existing

\* lines 160-166: "" when the request passes, else how it ends
EntryRejected(d, status) ==
    IF status \notin {Working, Holiday} THEN "Invalid status"
    ELSE IF date_or_400(d).exc = "HTTPException" THEN "Invalid date format"
    ELSE IF date_or_400(d).exc # "none" THEN date_or_400(d).exc
    ELSE ""

EntryRecord(station, d, status, time) ==
    [NoRequest EXCEPT !.op = "upsert_entry",
        !.station = normalize_station(station), !.date = d, !.status = status,
        !.time = time]

\* how a rejected request ends: an exception other than HTTPException is not
\* caught
Rejection(req, rej) ==
    [req EXCEPT !.result = IF rej \in {"TypeError", "ValueError"}
                           THEN "fault" ELSE "fail",
                !.message = rej]

\* lines 154-192 of a request that passes: the sessions it may be left with
EntrySessions(rows, station, d, status, time_in) ==
    LET st       == normalize_station(station)
        time     == Strip(OrEmpty(time_in))
        date_obj == date_or_400(d).value
        found    == SelectExisting(rows, st, date_obj)
    IN  {Session("upsert_entry",
                 [EntryRecord(station, d, status, time_in) EXCEPT
                     !.date_obj = date_obj, !.message = "Added",
                     !.matched = Cardinality(found)],
                 IF existing = NoRow THEN {} ELSE {existing},
                 {EntryAssign(EntryObject(existing, st, date_obj, status),
                              status, time)}) :
            existing \in FirstOf(found)}

add_calendar_entry(station, d, status, time_in) ==
    /\ phase = "serving"
    /\ IF EntryRejected(d, status) # ""
       THEN /\ last' = Rejection(EntryRecord(station, d, status, time_in),
                                 EntryRejected(d, status))
            /\ store' = store
       ELSE \E sess \in EntrySessions(store, station, d, status, time_in) :
               Finish(sess)
    /\ UNCHANGED <<phase, inflight>>

-----------------------------------------------------------------------------
(* POST /calendar/public *)

\* lines 221-235
HolidayObject(existing, station, date_obj, name) ==
    IF existing = NoRow
    THEN CalendarEntry(-1, station, date_obj, Holiday, RD, TRUE, name)
    ELSE [existing EXCEPT !.status = Holiday, !.time_label = RD,
                          !.is_public_holiday = TRUE, !.holiday_name = name]

\* lines 205-211, on the stripped date and name
HolidayRejected(d, name) ==
    IF d = <<>> \/ name = <<>> THEN "Missing date or name"
    ELSE IF date_or_400(d).exc = "HTTPException" THEN "Invalid date format"
    ELSE IF date_or_400(d).exc # "none" THEN date_or_400(d).exc
    ELSE ""

HolidayRecord(station, d_in, name_in) ==
    [NoRequest EXCEPT !.op = "upsert_public_holiday",
        !.station = normalize_station(station), !.date = d_in,
        !.name = name_in]

HolidaySessions(rows, station, d_in, name_in) ==
    LET st       == normalize_station(station)
        date_obj == date_or_400(Strip(OrEmpty(d_in))).value
        name     == Strip(OrEmpty(name_in))
        found    == SelectExisting(rows, st, date_obj)
    IN  {Session("upsert_public_holiday",
                 [HolidayRecord(station, d_in, name_in) EXCEPT
                     !.date_obj = date_obj, !.message = "Added public holiday",
                     !.matched = Cardinality(found)],
                 IF existing = NoRow THEN {} ELSE {existing},
                 {HolidayObject(existing, st, date_obj, name)}) :
            existing \in FirstOf(found)}

add_public_holiday(station, d_in, name_in) ==
    /\ phase = "serving"
    /\ LET rej == HolidayRejected(Strip(OrEmpty(d_in)), Strip(OrEmpty(name_in)))
       IN  IF rej # ""
           THEN /\ last' = Rejection(HolidayRecord(station, d_in, name_in), rej)
                /\ store' = store
           ELSE \E sess \in HolidaySessions(store, station, d_in, name_in) :
                   Finish(sess)
    /\ UNCHANGED <<phase, inflight>>

-----------------------------------------------------------------------------
(* DELETE /calendar/{date} and DELETE /calendar/public/{date} *)

\* both handlers: validate the date, DELETE WHERE station and date, report
DeleteByDate(op, message, station, date) ==
    /\ phase = "serving"
    /\ LET st  == normalize_station(station)
           res == date_or_400(date)
           req == [NoRequest EXCEPT !.op = op, !.station = st, !.date = date]
       IN  IF res.exc # "none"
           THEN /\ last' = Rejection(req, IF res.exc = "HTTPException"
                                          THEN "Invalid date format"
                                          ELSE res.exc)
                /\ store' = store
           ELSE LET found == SelectExisting(store, st, res.value)
                IN  /\ store' = store \ found
                    /\ last' = [req EXCEPT
                           !.result = "ok",
                           !.message = message, !.date_obj = res.value,
                           !.matched = Cardinality(found)]
    /\ UNCHANGED <<phase, inflight>>

remove_calendar_date(station, date) ==
    DeleteByDate("delete_entry", "Deleted", station, date)

remove_public_holiday(station, date) ==
    DeleteByDate("delete_public_holiday", "Removed public holiday", station, date)

-----------------------------------------------------------------------------
(* POST /calendar/public/auto *)

\* line 273 and line 275: the county filter
KeepsItem(item) ==
    LET counties == IF item.counties.null \/ Len(item.counties.list) = 0
                    THEN <<>> ELSE item.counties.list
    IN  Contains(Join(counties), QLD) \/ Len(counties) = 0

\* lines 287-303: the view and the counter after an item that passed the
\* filter; only the create branch counts
ImportMerge(o, existing, station, date_obj, name) ==
    IF existing = NoRow
    THEN [o EXCEPT
            !.view = @ \cup {CalendarEntry(
                0 - (Cardinality({x \in o.view : x.id < 0}) + 1),
                station, date_obj, Holiday, RD, TRUE, name)},
            !.added = @ + 1, !.passed = @ + 1]
    ELSE [o EXCEPT
            !.view = (@ \ {existing}) \cup
                     {[existing EXCEPT !.status = Holiday, !.time_label = RD,
                          !.is_public_holiday = TRUE, !.holiday_name = name]},
            !.passed = @ + 1]

\* One pass of the loop body over what the session sees (view: the table's
\* rows with this session's changes and the objects it has added; autoflush
\* makes an added object visible to the next SELECT).  passed counts the items
\* the filter let through; the code keeps no such counter.
ImportStep(o, station, item) ==
    IF o.exc # "none" THEN {o}
    ELSE IF ~KeepsItem(item) THEN {o}
    ELSE IF fromisoformat(item.date).exc # "none"
         THEN {[o EXCEPT !.exc = fromisoformat(item.date).exc]}
    ELSE LET date_obj == fromisoformat(item.date).value
         IN  {ImportMerge(o, existing, station, date_obj, item.localName) :
                 existing \in FirstOf(SelectExisting(o.view, station, date_obj))}

\* the outcomes of the loop over items[1..i]
RECURSIVE ImportLoop(_, _, _, _)
ImportLoop(rows, station, items, i) ==
    IF i = 0 THEN {[view |-> rows, added |-> 0, passed |-> 0, exc |-> "none"]}
    ELSE UNION {ImportStep(o, station, items[i]) :
                   o \in ImportLoop(rows, station, items, i - 1)}

ImportRecord(station) ==
    [NoRequest EXCEPT !.op = "import_public_holidays",
        !.station = normalize_station(station)]

\* "" when the fetch and the loop raise nothing, else the exception caught at
\* line 309
ImportRejected(rows, station, resp) ==
    IF resp.error THEN "HTTPError"
    ELSE LET raised == {o.exc : o \in ImportLoop(rows, normalize_station(station),
                                      resp.items, Len(resp.items))} \ {"none"}
         IN  IF raised = {} THEN "" ELSE CHOOSE e \in raised : TRUE

\* the session after the loop: the rows it changed as they were loaded, and
\* its changed and added objects
ImportSessions(rows, station, resp) ==
    {Session("import_public_holidays",
             [ImportRecord(station) EXCEPT !.message = "holidays loaded",
                 !.count = o.added, !.passed = o.passed],
             rows \ o.view, o.view \ rows) :
        o \in ImportLoop(rows, normalize_station(station), resp.items,
                         Len(resp.items))}

fetch_qld_public_holidays(station, resp) ==
    /\ phase = "serving"
    /\ IF ImportRejected(store, station, resp) # ""
       THEN /\ last' = [ImportRecord(station) EXCEPT !.result = "fail",
                           !.message = ImportRejected(store, station, resp)]
            /\ store' = store
       ELSE \E sess \in ImportSessions(store, station, resp) : Finish(sess)
    /\ UNCHANGED <<phase, inflight>>

-----------------------------------------------------------------------------
(* The process *)

AllIdle == [i \in 1..MaxInflight |-> Idle]

\* the process is started again on the same database; open requests are lost
Restart ==
    /\ phase = "serving"
    /\ phase' = "startup"
    /\ inflight' = AllIdle
    /\ last' = NoRequest
    /\ store' = store

Init ==
    /\ store = {}
    /\ phase = "startup"
    /\ inflight = AllIdle
    /\ last = NoRequest

\* requests served one at a time
Next ==
    \/ \E data \in LegacyFiles : on_startup(data)
    \/ Restart
    \/ \E st \in StationInputs : get_calendar_data(st)
    \/ \E q \in ResetRequests : reset_station(q.station, q.secret, q.expected)
    \/ \E q \in EntryRequests :
          add_calendar_entry(q.station, q.date, q.status, q.time)
    \/ \E q \in HolidayRequests : add_public_holiday(q.station, q.date, q.name)
    \/ \E q \in DeleteRequests : remove_calendar_date(q.station, q.date)
    \/ \E q \in PublicDeleteRequests : remove_public_holiday(q.station, q.date)
    \/ \E st \in StationInputs, resp \in ProviderResponses :
          fetch_qld_public_holidays(st, resp)

Spec == Init /\ [][Next]_vars

-----------------------------------------------------------------------------
(* Requests that overlap: a handler runs up to its commit (its SELECTs done,
   its objects changed in the session), other requests run, then it commits *)

Free(slot) == phase = "serving" /\ inflight[slot].op = "idle"

Open(slot, sess) ==
    /\ inflight' = [inflight EXCEPT ![slot] = sess]
    /\ UNCHANGED <<store, phase, last>>

begin_add_calendar_entry(slot, station, d, status, time_in) ==
    /\ Free(slot)
    /\ EntryRejected(d, status) = ""
    /\ \E sess \in EntrySessions(store, station, d, status, time_in) :
          Open(slot, sess)

begin_add_public_holiday(slot, station, d_in, name_in) ==
    /\ Free(slot)
    /\ HolidayRejected(Strip(OrEmpty(d_in)), Strip(OrEmpty(name_in))) = ""
    /\ \E sess \in HolidaySessions(store, station, d_in, name_in) :
          Open(slot, sess)

begin_fetch_qld_public_holidays(slot, station, resp) ==
    /\ Free(slot)
    /\ ImportRejected(store, station, resp) = ""
    /\ \E sess \in ImportSessions(store, station, resp) : Open(slot, sess)

commit(slot) ==
    /\ phase = "serving"
    /\ inflight[slot].op # "idle"
    /\ Finish(inflight[slot])
    /\ inflight' = [inflight EXCEPT ![slot] = Idle]
    /\ phase' = phase

Slots == 1..MaxInflight

OverlapEntryRequests ==
    {EntryRequest("StationA", D1, status, None) : status \in {Working, Holiday}}

OverlapHolidayRequests == {HolidayRequest("StationA", D1, <<"X">>)}

OverlapResponses == {Response(FALSE, <<National>>)}

\* A request that runs from its SELECT to its commit with nothing in between
\* is one step; one that is overtaken is a begin step and a commit step.
NextOverlap ==
    \/ \E data \in LegacyFiles : on_startup(data)
    \/ Restart
    \/ \E st \in StationInputs : get_calendar_data(st)
    \/ \E st \in StationInputs : reset_station(st, <<"s">>, <<"s">>)
    \/ \E st \in StationInputs : remove_calendar_date(st, D1)
    \/ \E st \in StationInputs : remove_public_holiday(st, D1)
    \/ \E q \in OverlapEntryRequests :
          add_calendar_entry(q.station, q.date, q.status, q.time)
    \/ \E q \in OverlapHolidayRequests :
          add_public_holiday(q.station, q.date, q.name)
    \/ \E resp \in OverlapResponses :
          fetch_qld_public_holidays("StationA", resp)
    \/ \E i \in Slots, q \in OverlapEntryRequests :
          begin_add_calendar_entry(i, q.station, q.date, q.status, q.time)
    \/ \E i \in Slots, q \in OverlapHolidayRequests :
          begin_add_public_holiday(i, q.station, q.date, q.name)
    \/ \E i \in Slots, resp \in OverlapResponses :
          begin_fetch_qld_public_holidays(i, "StationA", resp)
    \/ \E i \in Slots : commit(i)

SpecOverlap == Init /\ [][NextOverlap]_vars

-----------------------------------------------------------------------------
(* Properties *)

RowOf(id) == CHOOSE r \in store : r.id = id

DefaultLabel(status) == IF status = Holiday THEN RD ELSE ZeroHours

\* C1: the table holds at most one row for each (station, date).
C1_OneRowPerStationDate ==
    \A r1, r2 \in store :
        (r1.station = r2.station /\ r1.date = r2.date) => r1 = r2

\* C2: a reset whose configured secret is unset or empty, or differs from the
\* supplied one, answers Forbidden and deletes nothing; so rows are deleted
\* only under a configured, non-empty, matching secret.
C2_ResetDeniedWithoutSecret ==
    [][ (last'.op = "reset_station"
            /\ ~(Truthy(last'.expected) /\ last'.secret = last'.expected))
        => (last'.result = "forbidden" /\ store' = store) ]_vars

\* a denied reset of a station that has rows, with no secret configured and
\* the empty secret supplied
C2_Witness ==
    /\ last.op = "reset_station"
    /\ last.expected \in {None, <<>>}
    /\ last.secret = <<>>
    /\ last.result = "forbidden"
    /\ last.matched > 0

\* C3: an upsert_entry request with a valid status and a date that is missing,
\* malformed or not a calendar date ends in a structured failure.
C3_BadDateIsStructuredFailure ==
    (/\ last.op = "upsert_entry"
     /\ last.status \in {Working, Holiday}
     /\ date_or_400(last.date).exc # "none")
    => last.result = "fail"

\* C4: delete_entry of a (station, date) that has no row answers with a
\* "not found" failure.
C4_DeleteAbsentIsNotFound ==
    (/\ last.op = "delete_entry"
     /\ date_or_400(last.date).exc = "none"
     /\ last.matched = 0)
    => last.result = "fail"

\* C5: after a successful upsert_entry(station, date, status), every response
\* get_calendar(station) can give maps the date to that status.
C5_UpsertThenGet ==
    (last.op = "upsert_entry" /\ last.result = "ok")
    => \A g \in CalendarResponses(store, last.station) :
          /\ last.date \in DOMAIN g.calendar_data
          /\ g.calendar_data[last.date] = last.status

\* C6: a successful upsert_entry changes is_public_holiday and holiday_name of
\* no row that existed, removes no row, and a row it creates has
\* is_public_holiday = false and no holiday_name.
C6_EntryKeepsHolidayFields ==
    [][ (last'.op = "upsert_entry" /\ last'.result = "ok")
        => /\ \A p \in store : \E r \in store' : r.id = p.id
           /\ \A r \in store' :
                IF \E p \in store : p.id = r.id
                THEN LET p == CHOOSE x \in store : x.id = r.id
                     IN  /\ r.is_public_holiday = p.is_public_holiday
                         /\ r.holiday_name = p.holiday_name
                ELSE r.is_public_holiday = FALSE /\ r.holiday_name = None
      ]_vars

\* upsert_entry has just made a public holiday's row a Working day with an
\* explicit time, and the row is still the public holiday "X"
C6_Witness ==
    /\ last.op = "upsert_entry"
    /\ last.result = "ok"
    /\ last.status = Working
    /\ \E r \in store :
          /\ r.id = last.row_id
          /\ r.status = Working
          /\ r.time_label = <<"9">>
          /\ r.is_public_holiday
          /\ r.holiday_name = <<"X">>

\* C7 as stated: after a successful upsert_entry the row's time_label is the
\* supplied time when that is non-empty, else the default of the status.
C7_LabelIsSuppliedTime ==
    (last.op = "upsert_entry" /\ last.result = "ok")
    => RowOf(last.row_id).time_label =
          IF Truthy(last.time) THEN last.time ELSE DefaultLabel(last.status)

\* C7 amended: after a successful upsert_entry the row's time_label is the
\* supplied time without its leading and trailing whitespace when that is
\* non-empty, else "RD" for Holiday and "0 hours" for Working, whether the row
\* was created or existed.
C7_LabelIsStrippedTime ==
    (last.op = "upsert_entry" /\ last.result = "ok")
    => /\ \E r \in store : r.id = last.row_id
       /\ RowOf(last.row_id).status = last.status
       /\ RowOf(last.row_id).time_label =
             IF Strip(OrEmpty(last.time)) # <<>>
             THEN Strip(OrEmpty(last.time))
             ELSE DefaultLabel(last.status)

\* an existing row labelled "RD" is made a Holiday with the time " 9"
C7_Witness ==
    /\ last.op = "upsert_entry"
    /\ last.result = "ok"
    /\ last.status = Holiday
    /\ last.time = <<" ", "9">>
    /\ last.matched = 1
    /\ RowOf(last.row_id).time_label = <<"9">>
    /\ RowOf(last.row_id).is_public_holiday

\* C8, for a name without surrounding whitespace: after a successful
\* upsert_public_holiday(station, d, X), every response get_calendar(station)
\* can give shows d as Holiday, "RD" and public holiday X, and the write has
\* added no second row for (station, d).
C8_HolidayThenGet ==
    (/\ last.op = "upsert_public_holiday"
     /\ last.result = "ok"
     /\ Strip(last.name) = last.name)
    => /\ \A g \in CalendarResponses(store, last.station) :
             LET key == isoformat(last.date_obj)
             IN  /\ key \in DOMAIN g.calendar_data
                 /\ g.calendar_data[key] = Holiday
                 /\ key \in DOMAIN g.calendar_times
                 /\ g.calendar_times[key] = RD
                 /\ key \in DOMAIN g.public_holidays
                 /\ g.public_holidays[key] = last.name
       /\ Cardinality(SelectExisting(store, last.station, last.date_obj))
             = IF last.matched = 0 THEN 1 ELSE last.matched

\* C9: a successful import reports as many holidays as records passed the
\* county filter and were merged, created and overwritten alike.
C9_CountIsMerged ==
    (last.op = "import_public_holidays" /\ last.result = "ok")
    => last.count = last.passed

\* C10: every stored row has status Working or Holiday.
C10_StatusInEnum == \A r \in store : r.status \in {Working, Holiday}

====
